---- MODULE Spec2Model ----
(***************************************************************************)
(* The land mesh of src/setup.rs: `impl From<Land> for Mesh` builds the    *)
(* vertex and index buffers of a flat square grid, and setup_world derives *)
(* one colour per vertex from the mesh's positions.                        *)
(*                                                                         *)
(* The coordinates are Rust f32 values.  They are modelled as IEEE-754     *)
(* binary32 numbers with round-to-nearest-even arithmetic, so that what    *)
(* the code computes (and not what the formula would give over the reals)  *)
(* is what is checked.                                                     *)
(***************************************************************************)
EXTENDS Integers, Sequences, FiniteSets

(***************************************************************************)
(* Bounds of the model.                                                    *)
(***************************************************************************)
\* Largest Land.num_vertices the model builds.
MaxR == 4

(***************************************************************************)
(* f32: IEEE-754 binary32.                                                 *)
(*   [k |-> "num", s, m, e]  is (-1)^s * m * 2^e, with m = 0 (and e = 0),  *)
(*                           2^23 <= m < 2^24 and -149 <= e <= 104, or     *)
(*                           0 < m < 2^23 and e = -149 (subnormal);        *)
(*   [k |-> "inf", s]        is +/- infinity;  [k |-> "nan"] is a NaN.     *)
(***************************************************************************)
MantBits == 24
MinExp == -149
MaxExp == 104

Pow2(n) == 2 ^ n

RECURSIVE BitLen(_)
BitLen(n) == IF n = 0 THEN 0 ELSE 1 + BitLen(n \div 2)

NaN == [k |-> "nan", s |-> 0, m |-> 0, e |-> 0]
Inf(s) == [k |-> "inf", s |-> s, m |-> 0, e |-> 0]
Zero(s) == [k |-> "num", s |-> s, m |-> 0, e |-> 0]
Fin(s, m, e) ==
    IF m = 0 THEN Zero(s)
    ELSE IF e > MaxExp THEN Inf(s)
    ELSE [k |-> "num", s |-> s, m |-> m, e |-> e]

IsNaN(a) == a.k = "nan"
IsInf(a) == a.k = "inf"
IsZero(a) == a.k = "num" /\ a.m = 0
Xor(s, t) == IF s = t THEN 0 ELSE 1

\* The f32 nearest to (-1)^s * M * 2^e, ties to even; 0 <= M < 2^30.
F32Round(s, M, e) ==
    IF M = 0 THEN Zero(s)
    ELSE
      LET b == BitLen(M)
          et0 == e + b - MantBits
          et == IF et0 < MinExp THEN MinExp ELSE et0
      IN IF et <= e
         THEN Fin(s, M * Pow2(e - et), et)
         ELSE LET sh == et - e
              IN IF sh > 30
                 THEN Zero(s)
                 ELSE LET q == M \div Pow2(sh)
                          r == M % Pow2(sh)
                          half == Pow2(sh - 1)
                          up == r > half \/ (r = half /\ q % 2 = 1)
                          q2 == IF up THEN q + 1 ELSE q
                      IN IF q2 = Pow2(MantBits)
                         THEN Fin(s, Pow2(MantBits - 1), et + 1)
                         ELSE Fin(s, q2, et)

\* M with its lowest bit set when bits were dropped below it (a sticky bit).
Jam(M, dropped) == IF dropped /\ M % 2 = 0 THEN M + 1 ELSE M

\* `n as f32` for a u32 n < 2^30.
F32FromU32(n) == F32Round(0, n, 0)

FNeg(a) == IF IsNaN(a) THEN a ELSE [a EXCEPT !.s = 1 - a.s]

\* a * b in f32.
FMul(a, b) ==
    IF IsNaN(a) \/ IsNaN(b) THEN NaN
    ELSE IF IsInf(a) \/ IsInf(b)
    THEN IF IsZero(a) \/ IsZero(b) THEN NaN ELSE Inf(Xor(a.s, b.s))
    ELSE IF IsZero(a) \/ IsZero(b) THEN Zero(Xor(a.s, b.s))
    ELSE
      LET half == Pow2(12)
          a1 == a.m \div half
          a0 == a.m % half
          b1 == b.m \div half
          b0 == b.m % half
          mid == a1 * b0 + a0 * b1
          lowSum == (mid % half) * half + a0 * b0
          lo == lowSum % Pow2(24)
          hi == a1 * b1 + (mid \div half) + (lowSum \div Pow2(24))
          \* the exact product is hi * 2^24 + lo; keep its 29 leading bits
          bits == IF hi = 0 THEN BitLen(lo) ELSE 24 + BitLen(hi)
          shift == IF bits > 29 THEN bits - 29 ELSE 0
          M == hi * Pow2(24 - shift) + (lo \div Pow2(shift))
      IN F32Round(Xor(a.s, b.s), Jam(M, lo % Pow2(shift) # 0), a.e + b.e + shift)

\* The quotient digits of n / d, until q has 27 bits: <<q, remainder, digits>>.
RECURSIVE LongDiv(_, _, _, _)
LongDiv(q, r, d, k) ==
    IF q >= Pow2(26) THEN <<q, r, k>>
    ELSE LongDiv(2 * q + ((2 * r) \div d), (2 * r) % d, d, k + 1)

\* a / b in f32.
FDiv(a, b) ==
    IF IsNaN(a) \/ IsNaN(b) THEN NaN
    ELSE IF IsInf(a) THEN (IF IsInf(b) THEN NaN ELSE Inf(Xor(a.s, b.s)))
    ELSE IF IsInf(b) THEN Zero(Xor(a.s, b.s))
    ELSE IF IsZero(b) THEN (IF IsZero(a) THEN NaN ELSE Inf(Xor(a.s, b.s)))
    ELSE IF IsZero(a) THEN Zero(Xor(a.s, b.s))
    ELSE
      LET d == LongDiv(a.m \div b.m, a.m % b.m, b.m, 0)
      IN F32Round(Xor(a.s, b.s), Jam(d[1], d[2] # 0), a.e - b.e - d[3])

\* a + b in f32.
FAdd(a, b) ==
    IF IsNaN(a) \/ IsNaN(b) THEN NaN
    ELSE IF IsInf(a) THEN (IF IsInf(b) /\ a.s # b.s THEN NaN ELSE a)
    ELSE IF IsInf(b) THEN b
    ELSE IF IsZero(a) /\ IsZero(b) THEN Zero(IF a.s = 1 /\ b.s = 1 THEN 1 ELSE 0)
    ELSE IF IsZero(a) THEN b
    ELSE IF IsZero(b) THEN a
    ELSE
      LET hiOp == IF a.e >= b.e THEN a ELSE b
          loOp == IF a.e >= b.e THEN b ELSE a
          d == hiOp.e - loOp.e
          A == hiOp.m * 8
          B == IF d <= 3 THEN loOp.m * Pow2(3 - d)
               ELSE IF d - 3 > 30 THEN 1
               ELSE Jam(loOp.m \div Pow2(d - 3), loOp.m % Pow2(d - 3) # 0)
          S == (IF hiOp.s = 1 THEN -A ELSE A) + (IF loOp.s = 1 THEN -B ELSE B)
      IN IF S = 0 THEN Zero(0)
         ELSE IF S < 0 THEN F32Round(1, -S, hiOp.e - 3)
         ELSE F32Round(0, S, hiOp.e - 3)

\* a - b in f32.
FSub(a, b) == FAdd(a, FNeg(b))

\* a < b and a <= b as f32 comparisons (false when either is a NaN).
FLt(a, b) ==
    /\ ~IsNaN(a)
    /\ ~IsNaN(b)
    /\ LET c == FSub(a, b) IN
         IF IsNaN(c) THEN FALSE
         ELSE IF IsInf(c) THEN c.s = 1
         ELSE c.m # 0 /\ c.s = 1
FEq(a, b) ==
    /\ ~IsNaN(a)
    /\ ~IsNaN(b)
    /\ \/ a = b
       \/ IsZero(a) /\ IsZero(b)
FLe(a, b) == FLt(a, b) \/ FEq(a, b)

\* The f32 literals of the source.
F0 == Zero(0)
F1 == F32FromU32(1)
F2 == F32FromU32(2)
FHalf == Fin(0, Pow2(MantBits - 1), -MantBits)


(***************************************************************************)
(* struct Land and the inputs the model builds.                            *)
(***************************************************************************)
F100 == F32FromU32(100)
\* 15045727 * 2^-23 (about 1.79): a size whose step is inexact in f32.
FOdd == Fin(0, 15045727, -23)

\* The Land.size values drawn: the 100.0 of setup_world, sizes with exact
\* and inexact steps, and the non-positive sizes a caller could pass.
Sizes == {F100, F2, F1, FOdd, F0, FNeg(F2)}

Land == [size : Sizes, num_vertices : 0..MaxR]

\* let extent = plane.size / 2.0;
Extent(plane) == FDiv(plane.size, F2)

\* let jump = extent / plane.num_vertices as f32;
Jump(plane) == FDiv(Extent(plane), F32FromU32(plane.num_vertices))

\* Mutant of CartesianProduct: the ranges are 0..n, not 0..=n.
CartesianProductExclusive(n) ==
    [k \in 1..(n * n) |-> <<(k - 1) \div n, (k - 1) % n>>]

\* (0..=n).cartesian_product(0..=n), in the order the iterator yields it:
\* the first component varies slower.
CartesianProduct(n) ==
    [k \in 1..((n + 1) * (n + 1)) |-> <<(k - 1) \div (n + 1), (k - 1) % (n + 1)>>]

\* Mutant of VertexOf: the grid is centred with extent, not 0.5 * extent.
VertexOfFullExtent(plane, y, x) ==
    << << FSub(FMul(F32FromU32(x), Jump(plane)), Extent(plane)),
          F0,
          FSub(FMul(F32FromU32(y), Jump(plane)), Extent(plane)) >>,
       <<F0, F1, F0>>,
       << FDiv(F32FromU32(x), F32FromU32(plane.num_vertices)),
          FDiv(F32FromU32(y), F32FromU32(plane.num_vertices)) >> >>

\* Mutant of VertexOf: u and v are exchanged.
VertexOfUvSwapped(plane, y, x) ==
    << << FSub(FMul(F32FromU32(x), Jump(plane)), FMul(FHalf, Extent(plane))),
          F0,
          FSub(FMul(F32FromU32(y), Jump(plane)), FMul(FHalf, Extent(plane))) >>,
       <<F0, F1, F0>>,
       << FDiv(F32FromU32(y), F32FromU32(plane.num_vertices)),
          FDiv(F32FromU32(x), F32FromU32(plane.num_vertices)) >> >>

\* The closure of the vertex map, |(y, x)| (position, normal, uv).
VertexOf(plane, y, x) ==
    << << FSub(FMul(F32FromU32(x), Jump(plane)), FMul(FHalf, Extent(plane))),
          F0,
          FSub(FMul(F32FromU32(y), Jump(plane)), FMul(FHalf, Extent(plane))) >>,
       <<F0, F1, F0>>,
       << FDiv(F32FromU32(x), F32FromU32(plane.num_vertices)),
          FDiv(F32FromU32(y), F32FromU32(plane.num_vertices)) >> >>

\* Mutant of Triangles: the test of x is missing.
TrianglesLastRow(plane, index, x, y) ==
    IF y >= plane.num_vertices THEN << >>
    ELSE << index, index + 1 + 1 + plane.num_vertices, index + 1,
            index, index + 1 + plane.num_vertices,
            index + plane.num_vertices + 1 + 1 >>

\* Mutant of Triangles: the tests are > where the code has >=.
TrianglesPastEdge(plane, index, x, y) ==
    IF y > plane.num_vertices THEN << >>
    ELSE IF x > plane.num_vertices THEN << >>
    ELSE << index, index + 1 + 1 + plane.num_vertices, index + 1,
            index, index + 1 + plane.num_vertices,
            index + plane.num_vertices + 1 + 1 >>

\* Mutant of Triangles: the first triangle's last two indices are exchanged.
TrianglesSwappedFirst(plane, index, x, y) ==
    IF y >= plane.num_vertices THEN << >>
    ELSE IF x >= plane.num_vertices THEN << >>
    ELSE << index, index + 1, index + 1 + 1 + plane.num_vertices,
            index, index + 1 + plane.num_vertices,
            index + plane.num_vertices + 1 + 1 >>

\* Mutant of Triangles: the second triangle's last two indices are exchanged.
TrianglesSwappedSecond(plane, index, x, y) ==
    IF y >= plane.num_vertices THEN << >>
    ELSE IF x >= plane.num_vertices THEN << >>
    ELSE << index, index + 1 + 1 + plane.num_vertices, index + 1,
            index, index + plane.num_vertices + 1 + 1,
            index + 1 + plane.num_vertices >>

\* The closure of the index filter_map, |(index, (x, y))|, flattened: the six
\* indices of the cell, or nothing.  The u32 sums stay far below 2^32 for
\* every num_vertices the model builds, so they are plain sums here.
Triangles(plane, index, x, y) ==
    IF y >= plane.num_vertices THEN << >>
    ELSE IF x >= plane.num_vertices THEN << >>
    ELSE << index, index + 1 + 1 + plane.num_vertices, index + 1,
            index, index + 1 + plane.num_vertices,
            index + plane.num_vertices + 1 + 1 >>

\* Mutant of ColorOf: the division by 2 is missing.
ColorOfNoHalving(p) ==
    << FSub(F1, p[1]), FSub(F1, p[2]), FSub(F1, p[3]), F1 >>

\* The closure of the colour map of setup_world, |[r, g, b]| [..; 4].
ColorOf(p) ==
    << FDiv(FSub(F1, p[1]), F2),
       FDiv(FSub(F1, p[2]), F2),
       FDiv(FSub(F1, p[3]), F2),
       F1 >>

\* Mutant of Colorize: the colours are collected in reverse order.
ColorizeReversed(positions) ==
    [k \in 1..Len(positions) |-> ColorOf(positions[Len(positions) + 1 - k])]

\* positions.iter().map(..).collect()
Colorize(positions) == [k \in 1..Len(positions) |-> ColorOf(positions[k])]

\* Mesh::new(PrimitiveTopology::TriangleList): no indices, no attributes.
MeshNew == [attrs |-> {}, indices |-> << >>, POSITION |-> << >>,
            NORMAL |-> << >>, UV_0 |-> << >>, COLOR |-> << >>]

(***************************************************************************)
(* State.                                                                  *)
(***************************************************************************)
VARIABLES
    plane,      \* the Land being converted
    pc,         \* "vertices", "indices", "mesh", "colors", "done"
    cursor,     \* elements the running iterator has yielded
    vertices,   \* let vertices: the collected (position, normal, uv) triples
    indices,    \* the Vec inside let indices
    land        \* the Mesh

vars == <<plane, pc, cursor, vertices, indices, land>>

Init ==
    /\ plane \in Land
    /\ pc = "vertices"
    /\ cursor = 0
    /\ vertices = << >>
    /\ indices = << >>
    /\ land = MeshNew

\* One element of the vertex iterator is mapped and collected.
VertexStep ==
    /\ pc = "vertices"
    /\ cursor < Len(CartesianProduct(plane.num_vertices))
    /\ LET yx == CartesianProduct(plane.num_vertices)[cursor + 1]
       IN vertices' = Append(vertices, VertexOf(plane, yx[1], yx[2]))
    /\ cursor' = cursor + 1
    /\ UNCHANGED <<plane, pc, indices, land>>

\* The vertex iterator is exhausted: collect() returns.
VertexCollect ==
    /\ pc = "vertices"
    /\ cursor = Len(CartesianProduct(plane.num_vertices))
    /\ pc' = "indices"
    /\ cursor' = 0
    /\ UNCHANGED <<plane, vertices, indices, land>>

\* One element of the enumerated index iterator is filtered and flattened.
IndexStep ==
    /\ pc = "indices"
    /\ cursor < Len(CartesianProduct(plane.num_vertices))
    /\ LET xy == CartesianProduct(plane.num_vertices)[cursor + 1]
       IN indices' = indices \o Triangles(plane, cursor, xy[1], xy[2])
    /\ cursor' = cursor + 1
    /\ UNCHANGED <<plane, pc, vertices, land>>

\* The index iterator is exhausted: collect() returns.
IndexCollect ==
    /\ pc = "indices"
    /\ cursor = Len(CartesianProduct(plane.num_vertices))
    /\ pc' = "mesh"
    /\ UNCHANGED <<plane, cursor, vertices, indices, land>>

\* positions, normals and uvs are split off and the Mesh is assembled.
MeshBuild ==
    /\ pc = "mesh"
    /\ land' = [MeshNew EXCEPT
                  !.indices = indices,
                  !.POSITION = [k \in 1..Len(vertices) |-> vertices[k][1]],
                  !.NORMAL = [k \in 1..Len(vertices) |-> vertices[k][2]],
                  !.UV_0 = [k \in 1..Len(vertices) |-> vertices[k][3]],
                  !.attrs = {"POSITION", "NORMAL", "UV_0"}]
    /\ pc' = "colors"
    /\ UNCHANGED <<plane, cursor, vertices, indices>>

\* setup_world: the colours are derived from the position attribute.
InsertColors ==
    /\ pc = "colors"
    /\ land' = IF "POSITION" \in land.attrs
               THEN [land EXCEPT !.COLOR = Colorize(land.POSITION),
                                 !.attrs = @ \cup {"COLOR"}]
               ELSE land
    /\ pc' = "done"
    /\ UNCHANGED <<plane, cursor, vertices, indices>>

Next ==
    \/ VertexStep
    \/ VertexCollect
    \/ IndexStep
    \/ IndexCollect
    \/ MeshBuild
    \/ InsertColors

Spec == Init /\ [][Next]_vars

(***************************************************************************)
(* What the properties below speak of.                                     *)
(***************************************************************************)
R == plane.num_vertices
Built == pc = "done"
PositiveSize == FLt(F0, plane.size)
\* The place in the vertex buffer of the vertex of grid coordinates (row, col).
Offset(row, col) == row * (R + 1) + col + 1
Step == FDiv(FDiv(plane.size, F2), F32FromU32(R))
HalfExtent == FDiv(FDiv(plane.size, F2), F2)
\* (col * step - 0.5 * extent, 0, row * step - 0.5 * extent)
PositionAt(row, col) ==
    << FSub(FMul(F32FromU32(col), Step), FMul(FHalf, FDiv(plane.size, F2))),
       F0,
       FSub(FMul(F32FromU32(row), Step), FMul(FHalf, FDiv(plane.size, F2))) >>
InUnit(a) == FLe(F0, a) /\ FLe(a, F1)
Reverse(q) == [k \in 1..Len(q) |-> q[Len(q) + 1 - k]]
\* The position of the corner (1, 2 or 3) of the k-th triangle (k >= 1).
Corner(k, c) == land.POSITION[land.indices[3 * (k - 1) + c] + 1]
Sub3(p, q) == << FSub(p[1], q[1]), FSub(p[2], q[2]), FSub(p[3], q[3]) >>
Cross(u, v) ==
    << FSub(FMul(u[2], v[3]), FMul(u[3], v[2])),
       FSub(FMul(u[3], v[1]), FMul(u[1], v[3])),
       FSub(FMul(u[1], v[2]), FMul(u[2], v[1])) >>
NumTriangles == Len(land.indices) \div 3

(***************************************************************************)
(* C1: for every resolution R >= 1 the built mesh has (R+1)^2 positions,   *)
(* normals and uvs, and 6*R^2 indices.                                     *)
(***************************************************************************)
C1_Counts ==
    (Built /\ R >= 1) =>
        /\ Len(land.POSITION) = (R + 1) * (R + 1)
        /\ Len(land.NORMAL) = (R + 1) * (R + 1)
        /\ Len(land.UV_0) = (R + 1) * (R + 1)
        /\ Len(land.indices) = 6 * R * R

C1_Witness == Built /\ R = 2 /\ PositiveSize /\ Len(land.indices) = 24

(***************************************************************************)
(* C2: for R >= 1 every triangle of the index list has three pairwise      *)
(* distinct indices, and every index is below the vertex count.            *)
(***************************************************************************)
C2_ValidTriangles ==
    (Built /\ R >= 1) =>
        /\ Len(land.indices) % 3 = 0
        /\ \A j \in 1..Len(land.indices) :
              land.indices[j] >= 0 /\ land.indices[j] < Len(land.POSITION)
        /\ \A k \in 1..NumTriangles :
              /\ land.indices[3 * k - 2] # land.indices[3 * k - 1]
              /\ land.indices[3 * k - 2] # land.indices[3 * k]
              /\ land.indices[3 * k - 1] # land.indices[3 * k]

C2_Witness ==
    Built /\ R = 2 /\ \E j \in 1..Len(land.indices) : land.indices[j] = 8

(***************************************************************************)
(* C3: the index list is the concatenation, over the cells (row, col) with *)
(* row < R and col < R in row-major order, of (i, i+R+2, i+1) and then     *)
(* (i, i+R+1, i+R+2), where i = row*(R+1) + col.                           *)
(***************************************************************************)
C3_ExpectedIndices ==
    [j \in 1..(6 * R * R) |->
        LET cell == (j - 1) \div 6
            row == cell \div R
            col == cell % R
            i == row * (R + 1) + col
        IN << i, i + R + 2, i + 1, i, i + R + 1, i + R + 2 >>[((j - 1) % 6) + 1]]

C3_IndexOrder == Built => land.indices = C3_ExpectedIndices

C3_Witness == Built /\ R = 3 /\ Len(land.indices) = 54

(***************************************************************************)
(* C4 as stated: for size > 0 and R >= 1 the vertex of (row, col) has      *)
(* position (col*step - 0.5*extent, 0, row*step - 0.5*extent), every       *)
(* vertex has y = 0 and x, z within [-extent/2, +extent/2], the corners    *)
(* attain both bounds, and size = 2, R = 1 gives the four listed positions.*)
(***************************************************************************)
C4_Formula ==
    \A row \in 0..R : \A col \in 0..R :
        land.POSITION[Offset(row, col)] = PositionAt(row, col)

C4_LowerBound ==
    /\ \A k \in 1..Len(land.POSITION) :
          /\ FEq(land.POSITION[k][2], F0)
          /\ FLe(FNeg(HalfExtent), land.POSITION[k][1])
          /\ FLe(FNeg(HalfExtent), land.POSITION[k][3])
    /\ FEq(land.POSITION[Offset(0, 0)][1], FNeg(HalfExtent))
    /\ FEq(land.POSITION[Offset(0, 0)][3], FNeg(HalfExtent))

C4_UpperBound ==
    /\ \A k \in 1..Len(land.POSITION) :
          /\ FLe(land.POSITION[k][1], HalfExtent)
          /\ FLe(land.POSITION[k][3], HalfExtent)
    /\ FEq(land.POSITION[Offset(R, R)][1], HalfExtent)
    /\ FEq(land.POSITION[Offset(R, R)][3], HalfExtent)

C4_Example ==
    (plane.size = F2 /\ R = 1) =>
        land.POSITION = << <<FNeg(FHalf), F0, FNeg(FHalf)>>,
                           <<FHalf, F0, FNeg(FHalf)>>,
                           <<FNeg(FHalf), F0, FHalf>>,
                           <<FHalf, F0, FHalf>> >>

C4_StepExact == FMul(F32FromU32(R), Step) = FDiv(plane.size, F2)

C5_Uv ==
    (Built /\ R >= 1) =>
        /\ \A row \in 0..R : \A col \in 0..R :
              land.UV_0[Offset(row, col)] =
                 << FDiv(F32FromU32(col), F32FromU32(R)),
                    FDiv(F32FromU32(row), F32FromU32(R)) >>
        /\ \A k \in 1..Len(land.UV_0) :
              InUnit(land.UV_0[k][1]) /\ InUnit(land.UV_0[k][2])
        /\ land.UV_0[Offset(0, 0)] = <<F0, F0>>
        /\ land.UV_0[Offset(R, R)] = <<F1, F1>>

C5_Witness ==
    /\ Built
    /\ R = 3
    /\ land.UV_0[Offset(1, 2)] =
          << FDiv(F32FromU32(2), F32FromU32(3)), FDiv(F1, F32FromU32(3)) >>

(***************************************************************************)
(* C6 as stated: every component of every vertex colour of a mesh built    *)
(* from a valid Land (size > 0, R >= 1) is between 0 and 1.                *)
(***************************************************************************)
C6_ColorsInUnit ==
    \A k \in 1..Len(land.COLOR) : \A c \in 1..4 : InUnit(land.COLOR[k][c])

C6_Original == (Built /\ PositiveSize /\ R >= 1) => C6_ColorsInUnit

(***************************************************************************)
(* C6 as amended: green is 0.5 and alpha is 1 in every colour; red and     *)
(* blue are within [0, 1] when size <= 2, and not in general: for          *)
(* size = 100 the colour of vertex (0, 0) is (13, 0.5, 13, 1) and the red  *)
(* and blue of vertex (R, R) are negative (-12 when R * step is exactly    *)
(* extent).                                                                *)
(***************************************************************************)
F13 == F32FromU32(13)
F12 == F32FromU32(12)

C6_Amended ==
    (Built /\ PositiveSize /\ R >= 1) =>
        /\ Len(land.COLOR) = Len(land.POSITION)
        /\ \A k \in 1..Len(land.COLOR) :
              land.COLOR[k][2] = FHalf /\ land.COLOR[k][4] = F1
        /\ FLe(plane.size, F2) => C6_ColorsInUnit
        /\ plane.size = F100 =>
              /\ land.COLOR[Offset(0, 0)] = <<F13, FHalf, F13, F1>>
              /\ FLt(land.COLOR[Offset(R, R)][1], F0)
              /\ FLt(land.COLOR[Offset(R, R)][3], F0)
              /\ (FMul(F32FromU32(R), Step) = FDiv(plane.size, F2)) =>
                    land.COLOR[Offset(R, R)] =
                       <<FNeg(F12), FHalf, FNeg(F12), F1>>

C6_Witness ==
    /\ Built
    /\ R = 2
    /\ plane.size = F100
    /\ land.COLOR[1][1] = F13
    /\ ~InUnit(land.COLOR[1][1])

(***************************************************************************)
(* C7: the colours are a pointwise map of the positions: as many colours   *)
(* as positions (and as vertices), colour k is ((1-x)/2, (1-y)/2, (1-z)/2, *)
(* 1) of position k, (0,0,0) gives (0.5, 0.5, 0.5, 1), and colouring the   *)
(* positions in another order gives the colours in that order.             *)
(***************************************************************************)
C7_Pointwise ==
    Built =>
        /\ "COLOR" \in land.attrs
        /\ Len(land.COLOR) = Len(land.POSITION)
        /\ Len(land.COLOR) = Len(vertices)
        /\ \A k \in 1..Len(land.POSITION) :
              /\ land.COLOR[k] =
                    << FDiv(FSub(F1, land.POSITION[k][1]), F2),
                       FDiv(FSub(F1, land.POSITION[k][2]), F2),
                       FDiv(FSub(F1, land.POSITION[k][3]), F2),
                       F1 >>
              /\ land.POSITION[k] = <<F0, F0, F0>> =>
                    land.COLOR[k] = <<FHalf, FHalf, FHalf, F1>>
        /\ Colorize(Reverse(land.POSITION)) = Reverse(land.COLOR)
        /\ \A k \in 1..Len(land.POSITION) :
              Colorize(<<land.POSITION[k]>> \o SubSeq(land.POSITION, 1, k - 1))
                 = <<land.COLOR[k]>> \o SubSeq(land.COLOR, 1, k - 1)

C7_Witness ==
    /\ Built
    /\ R = 2
    /\ plane.size = F2
    /\ land.POSITION[Offset(1, 1)] = <<F0, F0, F0>>
    /\ land.COLOR[Offset(1, 1)] = <<FHalf, FHalf, FHalf, F1>>
    /\ land.COLOR[1] # land.COLOR[2]

(***************************************************************************)
(* C8: a build with num_vertices = 0 ends with a mesh of one vertex, no    *)
(* triangle and an empty index list (that such a build does end is what    *)
(* C8_Witness is reached for).                                             *)
(***************************************************************************)
C8_Degenerate ==
    (Built /\ R = 0) =>
        /\ land.attrs = {"POSITION", "NORMAL", "UV_0", "COLOR"}
        /\ Len(land.POSITION) = 1
        /\ Len(land.NORMAL) = 1
        /\ Len(land.UV_0) = 1
        /\ NumTriangles = 0
        /\ land.indices = << >>

C8_Witness ==
    /\ Built
    /\ R = 0
    /\ PositiveSize
    /\ Len(land.POSITION) = 1
    /\ IsNaN(land.POSITION[1][1])

(***************************************************************************)
(* C9: a build whose size is <= 0 is rejected at its start, before any     *)
(* buffer is produced.                                                     *)
(***************************************************************************)
C9_RejectedEagerly ==
    FLe(plane.size, F0) =>
        /\ vertices = << >>
        /\ indices = << >>
        /\ land = MeshNew

(***************************************************************************)
(* C10: for size > 0 and R >= 1 every normal is (0, 1, 0), and the face    *)
(* normal (P_b - P_a) x (P_c - P_a) of every triangle (a, b, c) has zero x *)
(* and z and a strictly positive y.                                        *)
(***************************************************************************)
C10_FaceNormal(k) ==
    Cross(Sub3(Corner(k, 2), Corner(k, 1)), Sub3(Corner(k, 3), Corner(k, 1)))

====
